---- MODULE Spec2Model ----
(***************************************************************************)
(* Model of server.js of the Country dashboard: the handler of             *)
(* GET /country-info/:country, the fetchJson helper and the node-cache     *)
(* store it uses.                                                          *)
(*                                                                         *)
(* A request handler is an async function: the code between two awaits     *)
(* runs without interruption, so every action below is one such segment,   *)
(* from the resumption of an awaited upstream call to the next call the    *)
(* handler issues (or to its response).                                    *)
(*                                                                         *)
(* Strings that the code inspects (the country name, the URLs) are         *)
(* sequences of tokens; a token is a character, or a run of characters     *)
(* the code never looks inside of (a host name, a path).                   *)
(***************************************************************************)
EXTENDS Integers, Sequences, FiniteSets, TLC

(***************************************************************************)
(* Bounds of the model.                                                    *)
(***************************************************************************)
\* number of inbound requests of one run
MaxRequests == 3
\* handlers suspended at an await at the same time
MaxInFlight == 2
\* the clock stops advancing here (seconds)
MaxTime == 450
\* seconds the clock advances in one step
TimeStep == 200
\* longest forecast list the weather provider returns
MaxForecast == 9
\* most locations the air-quality provider returns
MaxLocations == 6

(***************************************************************************)
(* Program constants.                                                      *)
(***************************************************************************)
\* CACHE_TTL = Number(process.env.CACHE_TTL_SECONDS || 300)
CACHE_TTL == 300
\* the 8 of forecast.list.slice(0, 8)
ForecastSlice == 8
\* the 5 of limit=5 in the air-quality query
AqLimit == 5

VARIABLES
    env,      \* process.env: the two API keys ("" when not set)
    now,      \* the clock, in seconds
    cache,    \* node-cache: key -> [v: stored record, t: instant of expiry]
    reqs      \* the inbound requests: handler position, locals, response

vars == <<env, now, cache, reqs>>

Req == 1..MaxRequests

(***************************************************************************)
(* JavaScript strings.                                                     *)
(***************************************************************************)
\* String.prototype.toLowerCase, on one token
LowerChar(c) ==
    CASE c = "F" -> "f"
      [] c = "R" -> "r"
      [] c = "P" -> "p"
      [] c = "API.OPENAQ.ORG" -> "api.openaq.org"
      [] OTHER -> c

ToLowerCase(s) == [i \in 1..Len(s) |-> LowerChar(s[i])]

RECURSIVE TrimStart(_)
TrimStart(s) ==
    IF s # <<>> /\ Head(s) = " " THEN TrimStart(Tail(s)) ELSE s

RECURSIVE TrimEnd(_)
TrimEnd(s) ==
    IF s # <<>> /\ s[Len(s)] = " " THEN TrimEnd(SubSeq(s, 1, Len(s) - 1)) ELSE s

\* String.prototype.trim
Trim(s) == TrimEnd(TrimStart(s))

\* encodeURIComponent: letters, digits and "." are kept, a space is escaped
EncodeChar(c) == IF c = " " THEN "%20" ELSE c

EncodeURIComponent(s) == [i \in 1..Len(s) |-> EncodeChar(s[i])]

\* String.prototype.includes
Includes(s, sub) ==
    \E i \in 0..(Len(s) - Len(sub)) : SubSeq(s, i + 1, i + Len(sub)) = sub

\* JavaScript null
Null == [null |-> TRUE]

(***************************************************************************)
(* fetchJson.  An upstream answer is [kind, status, body]: kind "ok" is a  *)
(* 2xx answer whose body parses to body, "http" a non-2xx answer, "timeout"*)
(* the abort after 10 s, "badbody" a 2xx answer whose body is not JSON.    *)
(***************************************************************************)
\* the host whose requests get the X-API-Key header
OpenAqHost == <<"api.openaq.org">>

\* the headers fetchJson sends to url: the X-API-Key value, "" when none
FetchHeaders(url) ==
    IF Includes(url, OpenAqHost) /\ env.OPENAQS_API_KEY # ""
    THEN env.OPENAQS_API_KEY
    ELSE ""

\* what the awaited fetchJson yields for an upstream answer: a value or a throw
FetchJson(resp) ==
    CASE resp.kind = "ok" ->
           [ok |-> TRUE, val |-> resp.body, err |-> ""]
      [] resp.kind = "http" ->
           [ok |-> FALSE, val |-> Null, err |-> "Error: HTTP " \o ToString(resp.status)]
      [] resp.kind = "timeout" ->
           [ok |-> FALSE, val |-> Null, err |-> "AbortError: The user aborted a request."]
      [] OTHER ->
           [ok |-> FALSE, val |-> Null, err |-> "FetchError: invalid json response body"]

\* the request fetchJson sends: the call site, the URL and the key header
Sent(site, url) == [site |-> site, url |-> url, xApiKey |-> FetchHeaders(url)]

\* the host of a URL built below
Host(url) == url[2]

(***************************************************************************)
(* The URLs the handler builds.                                            *)
(***************************************************************************)
RestUrl(countryName) ==
    <<"https://", "restcountries.com", "/v3.1/name/">>
        \o EncodeURIComponent(countryName) \o <<"?fullText=false">>

CurrentUrl(lat, lon) ==
    <<"https://", "api.openweathermap.org", "/data/2.5/weather?lat=", ToString(lat),
      "&lon=", ToString(lon), "&appid=", env.OPENWEATHER_API_KEY, "&units=metric">>

ForecastUrl(lat, lon) ==
    <<"https://", "api.openweathermap.org", "/data/2.5/forecast?lat=", ToString(lat),
      "&lon=", ToString(lon), "&appid=", env.OPENWEATHER_API_KEY, "&units=metric">>

ExUrl(base) ==
    <<"https://", "api.exchangerate.host", "/latest?base=", base, "&symbols=USD,EUR,GBP">>

AqUrl(lat, lon) ==
    <<"https://", "api.openaq.org", "/v3/locations?coordinates=", ToString(lat), ",",
      ToString(lon), "&radius=25000&limit=5">>

(***************************************************************************)
(* node-cache, with stdTTL = CACHE_TTL and its defaults (deleteOnExpire,   *)
(* useClones: a value read is a copy equal to the value written).          *)
(***************************************************************************)
CacheKey(countryName) == <<"country:">> \o countryName

\* the validation without the trim
IsBlankUntrimmed(countryRaw) == Len(countryRaw) = 0

\* line 88: !countryRaw || countryRaw.trim().length === 0
IsBlank(countryRaw) == Len(Trim(countryRaw)) = 0

\* the name trimmed but not lower-cased
CountryNameTrimOnly(countryRaw) == Trim(countryRaw)

\* line 91: countryRaw.trim().toLowerCase()
CountryName(countryRaw) == ToLowerCase(Trim(countryRaw))

\* an entry that never expires
LiveForever(c, key) == key \in DOMAIN c

\* _check: an entry is live until the clock has passed its instant of expiry
Live(c, key) == key \in DOMAIN c /\ ~(c[key].t < now)

\* get deletes the entry it finds expired
CacheAfterGet(c, key) ==
    IF key \in DOMAIN c /\ ~Live(c, key)
    THEN [k \in DOMAIN c \ {key} |-> c[k]]
    ELSE c

\* a set that stores the response body, fromCache flag included
CacheSetResponse(c, key, v) ==
    [k \in DOMAIN c \cup {key} |->
        IF k = key
        THEN [v |-> [fromCache |-> FALSE, country |-> v.country, weather |-> v.weather,
                     exchange |-> v.exchange, airQuality |-> v.airQuality,
                     fetchedAt |-> v.fetchedAt],
              t |-> now + CACHE_TTL]
        ELSE c[k]]

\* a set that skips a record with a failed weather sub-record
CacheSetSkipErrors(c, key, v) ==
    IF "error" \in DOMAIN v.weather
    THEN c
    ELSE [k \in DOMAIN c \cup {key} |->
             IF k = key THEN [v |-> v, t |-> now + CACHE_TTL] ELSE c[k]]

\* a set that keeps the entry the key already has
CacheSetKeepExisting(c, key, v) ==
    [k \in DOMAIN c \cup {key} |->
        IF k \in DOMAIN c THEN c[k] ELSE [v |-> v, t |-> now + CACHE_TTL]]

\* set: the value with the expiry fixed now
CacheSet(c, key, v) ==
    [k \in DOMAIN c \cup {key} |->
        IF k = key THEN [v |-> v, t |-> now + CACHE_TTL] ELSE c[k]]

(***************************************************************************)
(* The sub-records.                                                        *)
(***************************************************************************)
\* country: name falls back from common to official to the requested name
BuildCountry(cd, countryName) ==
    [name |-> IF cd.common # <<>> THEN cd.common
              ELSE IF cd.official # <<>> THEN cd.official
              ELSE countryName,
     officialName |-> cd.official,
     latlng |-> cd.latlng,
     currencies |-> cd.currencies]

\* a weather test that forgets the API key
WeatherPreconditionNoKey(country) == Len(country.latlng) >= 2

\* country.latlng && country.latlng.length >= 2 && OPENWEATHER_API_KEY
WeatherPrecondition(country) ==
    Len(country.latlng) >= 2 /\ env.OPENWEATHER_API_KEY # ""

\* the whole list, not sliced
SliceAll(list) == list

\* forecast.list.slice(0, 8)
Slice(list) ==
    SubSeq(list, 1, IF Len(list) < ForecastSlice THEN Len(list) ELSE ForecastSlice)

\* one forecast sample: dt, temp, description, windSpeed of the provider's item
ForecastItem(item) ==
    [dt |-> item.dt, temp |-> item.temp,
     description |-> item.description, windSpeed |-> item.windSpeed]

\* weather from the two parsed bodies; reading a field of null throws
BuildWeather(current, forecast) ==
    IF current = Null \/ forecast = Null
    THEN [error |-> "TypeError: Cannot read properties of null"]
    ELSE [current |-> [temp |-> current.temp, timezone |-> current.timezone],
          forecast |-> [list |->
              IF "list" \in DOMAIN forecast
              THEN LET l == Slice(forecast.list)
                   IN  [i \in 1..Len(l) |-> ForecastItem(l[i])]
              ELSE <<>>]]

\* the first currency code of the country, else USD
ExchangeBase(country) ==
    IF Len(country.currencies) > 0 THEN country.currencies[1] ELSE "USD"

\* an exchange record that treats a body without rates as a failure
BuildExchangeStrict(base, exJson) ==
    IF exJson # Null /\ "rates" \in DOMAIN exJson
    THEN [base |-> base, rates |-> exJson.rates, date |-> exJson.date]
    ELSE [error |-> "Error: no rates in exchange response"]

\* exchange from the parsed body: rates and date, null where the body has none
BuildExchange(base, exJson) ==
    [base |-> base,
     rates |-> IF exJson # Null /\ "rates" \in DOMAIN exJson
               THEN exJson.rates ELSE Null,
     date |-> IF exJson # Null THEN exJson.date ELSE <<>>]  \* <<>>: null

\* a coordinate test that accepts zero: a pair is enough
AqPreconditionPair(country) == Len(country.latlng) >= 2

\* lat && lon: both coordinates present and not zero
AqPrecondition(country) ==
    /\ Len(country.latlng) >= 2
    /\ country.latlng[1] # 0
    /\ country.latlng[2] # 0

\* one location entry of the air-quality sub-record
AqLocation(location) ==
    [location |-> location.id, name |-> location.name,
     measurements |-> location.latest]

\* airQuality from the parsed body: every location the provider returned
BuildAirQuality(aqJson) ==
    IF aqJson = Null
    THEN [error |-> "TypeError: Cannot read properties of null"]
    ELSE [results |->
              IF "results" \in DOMAIN aqJson
              THEN [i \in 1..Len(aqJson.results) |-> AqLocation(aqJson.results[i])]
              ELSE <<>>]

(***************************************************************************)
(* The handler of GET /country-info/:country.                              *)
(*                                                                         *)
(* A request is [pc, raw, countryName, country, current, weather,          *)
(* exchange, calls, answers, status, body, responses, ...]: pc is the      *)
(* await the handler is suspended at ("idle" before the request arrives,   *)
(* "done" after its response), calls the upstream requests it has sent,    *)
(* answers the upstream answers it has received, responses the number of   *)
(* responses written to res.  sawDone, rank, arrived and finished record   *)
(* when it arrived and finished, among the other requests and on the       *)
(* clock.                                                                  *)
(***************************************************************************)
IdleReq ==
    [pc |-> "idle", raw |-> <<>>, countryName |-> <<>>,
     country |-> Null, current |-> Null, weather |-> Null, exchange |-> Null,
     calls |-> <<>>, answers |-> <<>>,
     status |-> 0, body |-> Null, responses |-> 0,
     sawDone |-> 0, rank |-> 0, arrived |-> 0, finished |-> 0]

NumDone == Cardinality({q \in Req : reqs[q].pc = "done"})

InFlight == Cardinality({q \in Req : reqs[q].pc \notin {"idle", "done"}})

\* res.status(status).json(body)
Respond(req, status, body) ==
    [req EXCEPT !.pc = "done", !.status = status, !.body = body,
                !.responses = @ + 1, !.rank = NumDone + 1, !.finished = now]

\* await fetchJson(url): send the request and suspend at pc
Call(req, pc, url) ==
    [req EXCEPT !.pc = pc, !.calls = Append(@, Sent(pc, url))]

\* the awaited call of req has been answered by resp
Answered(req, resp) ==
    [req EXCEPT !.answers = Append(@, [site |-> req.pc, resp |-> resp])]

\* res.json({ fromCache, ...record })
Body(fromCache, record) ==
    [fromCache |-> fromCache, country |-> record.country, weather |-> record.weather,
     exchange |-> record.exchange, airQuality |-> record.airQuality,
     fetchedAt |-> record.fetchedAt]

\* 3) the exchange adapter: its call
StartExchange(req) == Call(req, "exchange", ExUrl(ExchangeBase(req.country)))

\* a weather adapter without its else branch: weather stays null
StartWeatherNoElse(req) ==
    IF WeatherPrecondition(req.country)
    THEN Call(req, "current", CurrentUrl(req.country.latlng[1], req.country.latlng[2]))
    ELSE StartExchange(req)

\* 2) the weather adapter: its first call, or the error without a call
StartWeather(req) ==
    IF WeatherPrecondition(req.country)
    THEN Call(req, "current", CurrentUrl(req.country.latlng[1], req.country.latlng[2]))
    ELSE StartExchange([req EXCEPT
             !.weather = [error |-> "No lat/lon or OpenWeather API key not set"]])

\* an outer catch that logs the error and sends no response
CatchSilent(req, err) == [req EXCEPT !.pc = "caught"]

\* the outer catch: res.status(500).json({ error: String(err) })
Catch(req, err) == Respond(req, 500, [error |-> err])

\* a weather error that reaches the outer catch
WeatherRethrow(req, wErr) == Catch(req, wErr)

\* catch (wErr): the weather error is kept in the sub-record, the handler goes on
WeatherCatch(req, wErr) == StartExchange([req EXCEPT !.weather = [error |-> wErr]])

\* the combined result
Result(req, airQuality) ==
    [country |-> req.country, weather |-> req.weather, exchange |-> req.exchange,
     airQuality |-> airQuality, fetchedAt |-> now]

\* a not-found answer without its return: the handler goes on to the adapters
NotFoundNoReturn(req) ==
    Call([req EXCEPT !.responses = @ + 1, !.status = 404], "exchange", ExUrl("USD"))

\* a country that is not found answered as an internal error
NotFoundAs500(req) == Respond(req, 500, [error |-> "Country not found (RestCountries)"])

\* line 105: res.status(404).json({ error: 'Country not found (RestCountries)' })
NotFound(req) == Respond(req, 404, [error |-> "Country not found (RestCountries)"])

\* lines 86-101: validation, cache lookup, the call of the country provider
Arrive(r, raw) ==
    LET countryName == CountryName(raw)
        cacheKey == CacheKey(countryName)
        req == [reqs[r] EXCEPT !.raw = raw, !.arrived = now, !.sawDone = NumDone]
    IN  /\ reqs[r].pc = "idle"
        /\ r > 1 => reqs[r - 1].pc # "idle"
        /\ UNCHANGED <<env, now>>
        /\ IF IsBlank(raw)
           THEN /\ reqs' = [reqs EXCEPT ![r] =
                       Respond(req, 400, [error |-> "Country name required"])]
                /\ UNCHANGED cache
           ELSE IF Live(cache, cacheKey)
           THEN /\ reqs' = [reqs EXCEPT ![r] =
                       Respond([req EXCEPT !.countryName = countryName], 200,
                               Body(TRUE, cache[cacheKey].v))]
                /\ UNCHANGED cache
           ELSE /\ InFlight < MaxInFlight
                /\ reqs' = [reqs EXCEPT ![r] =
                       Call([req EXCEPT !.countryName = countryName],
                            "country", RestUrl(countryName))]
                /\ cache' = CacheAfterGet(cache, cacheKey)

\* lines 101-128: the country provider has answered
CountryResp(r, resp) ==
    LET req == Answered(reqs[r], resp)
        restData == FetchJson(resp)
    IN  /\ reqs[r].pc = "country"
        /\ UNCHANGED <<env, now, cache>>
        /\ reqs' = [reqs EXCEPT ![r] =
               IF ~restData.ok
               THEN Catch(req, restData.err)
               ELSE IF ~(restData.val.isArray /\ Len(restData.val.items) > 0)
               THEN NotFound(req)
               ELSE StartWeather([req EXCEPT !.country =
                        BuildCountry(restData.val.items[1], req.countryName)])]

\* lines 128-132: the current-weather call has been answered
CurrentResp(r, resp) ==
    LET req == Answered(reqs[r], resp)
        current == FetchJson(resp)
    IN  /\ reqs[r].pc = "current"
        /\ UNCHANGED <<env, now, cache>>
        /\ reqs' = [reqs EXCEPT ![r] =
               IF ~current.ok
               THEN WeatherCatch(req, current.err)
               ELSE Call([req EXCEPT !.current = current.val], "forecast",
                         ForecastUrl(req.country.latlng[1], req.country.latlng[2]))]

\* lines 132-169: the forecast call has been answered
ForecastResp(r, resp) ==
    LET req == Answered(reqs[r], resp)
        forecast == FetchJson(resp)
    IN  /\ reqs[r].pc = "forecast"
        /\ UNCHANGED <<env, now, cache>>
        /\ reqs' = [reqs EXCEPT ![r] =
               IF ~forecast.ok
               THEN WeatherCatch(req, forecast.err)
               ELSE StartExchange([req EXCEPT !.weather =
                        BuildWeather(req.current, forecast.val)])]

\* a completion that looks the cache up again and, when another request has
\* stored the key meanwhile, answers with that record instead of its own
FinishDoubleChecked(r, req, airQuality) ==
    LET key == CacheKey(req.countryName)
    IN  IF Live(cache, key)
        THEN /\ UNCHANGED cache
             /\ reqs' = [reqs EXCEPT ![r] = Respond(req, 200, Body(FALSE, cache[key].v))]
        ELSE /\ cache' = [k \in DOMAIN cache \cup {key} |->
                            IF k = key
                            THEN [v |-> Result(req, airQuality), t |-> now + CACHE_TTL]
                            ELSE cache[k]]
             /\ reqs' = [reqs EXCEPT ![r] =
                    Respond(req, 200, Body(FALSE, Result(req, airQuality)))]

\* lines 213-218: the combined result is cached and returned
Finish(r, req, airQuality) ==
    /\ cache' = CacheSet(cache, CacheKey(req.countryName), Result(req, airQuality))
    /\ reqs' = [reqs EXCEPT ![r] =
           Respond(req, 200, Body(FALSE, Result(req, airQuality)))]

\* lines 169-191 (or to 218 without coordinates): the exchange call has been answered
ExchangeResp(r, resp) ==
    LET exJson == FetchJson(resp)
        req == [Answered(reqs[r], resp) EXCEPT !.exchange =
                   IF ~exJson.ok
                   THEN [error |-> exJson.err]
                   ELSE BuildExchange(ExchangeBase(reqs[r].country), exJson.val)]
    IN  /\ reqs[r].pc = "exchange"
        /\ UNCHANGED <<env, now>>
        /\ IF AqPrecondition(req.country)
           THEN /\ reqs' = [reqs EXCEPT ![r] =
                       Call(req, "aq", AqUrl(req.country.latlng[1], req.country.latlng[2]))]
                /\ UNCHANGED cache
           ELSE Finish(r, req, [error |-> "No coordinates available for OpenAQ query."])

\* lines 191-218: the air-quality call has been answered
AqResp(r, resp) ==
    LET aqJson == FetchJson(resp)
        req == Answered(reqs[r], resp)
    IN  /\ reqs[r].pc = "aq"
        /\ UNCHANGED <<env, now>>
        /\ Finish(r, req, IF ~aqJson.ok
                          THEN [error |-> aqJson.err]
                          ELSE BuildAirQuality(aqJson.val))

\* the clock advances
Tick ==
    /\ now + TimeStep <= MaxTime
    /\ now' = now + TimeStep
    /\ UNCHANGED <<env, cache, reqs>>

\* node-cache's periodic check (checkperiod) deletes the expired entries
CheckData ==
    /\ \E k \in DOMAIN cache : ~Live(cache, k)
    /\ cache' = [k \in {j \in DOMAIN cache : Live(cache, j)} |-> cache[k]]
    /\ UNCHANGED <<env, now, reqs>>

(***************************************************************************)
(* The environment: the names clients ask for, the answers of the          *)
(* upstream providers and the process environment.                         *)
(***************************************************************************)
Ok(body) == [kind |-> "ok", status |-> 200, body |-> body]
Http(status) == [kind |-> "http", status |-> status, body |-> Null]
Timeout == [kind |-> "timeout", status |-> 0, body |-> Null]
BadBody == [kind |-> "badbody", status |-> 200, body |-> Null]

Failures == {Http(500), Timeout, BadBody}

\* entries of the country provider's result set
France ==
    [common |-> <<"France">>, official |-> <<"French Republic">>,
     latlng |-> <<46, 2>>, currencies |-> <<"EUR">>]
DRCongo ==
    [common |-> <<>>, official |-> <<"Democratic Republic of the Congo">>,
     latlng |-> <<0, 25>>, currencies |-> <<"CDF", "USD">>]
Bare ==
    [common |-> <<>>, official |-> <<>>, latlng |-> <<>>, currencies |-> <<>>]
Antarctica ==
    [common |-> <<"Antarctica">>, official |-> <<"Antarctica">>,
     latlng |-> <<-90, 0>>, currencies |-> <<>>]

Matches(items) == Ok([isArray |-> TRUE, items |-> items])

\* the forecast provider's list of n entries, in its order
ForecastList(n) ==
    [i \in 1..n |-> [dt |-> 10800 * i, temp |-> 20 - i, description |-> "clear sky",
                     windSpeed |-> i, pop |-> 0]]

\* the air-quality provider's n locations
Locations(n) ==
    [i \in 1..n |-> [id |-> 100 + i, name |-> "station", latest |-> <<"pm25", 10 + i>>,
                     timezone |-> "UTC"]]

Current == [temp |-> 21, timezone |-> 3600]
Rates == [rates |-> [USD |-> 108, EUR |-> 100, GBP |-> 86], date |-> <<"2024-05-01">>]

\* the names and answers of the runs with concurrent requests
Names == {<<"F", "r">>, <<" ", "f", "R", " ">>, <<" ", " ">>}
CountryAnswers == {Matches(<<France>>), Matches(<<>>), Http(404)}
CurrentAnswers == {Ok(Current), Http(500)}
ForecastAnswers == {Ok([list |-> ForecastList(2)])}
ExchangeAnswers == {Ok(Rates)}
AqAnswers == {Ok([results |-> Locations(2)])}

\* the names and answers of the runs of a single request
AllNames ==
    {<<"F", "r">>, <<" ", "P", " ", "r", " ">>, <<" ">>, <<"api.openaq.org">>,
     <<" ", "API.OPENAQ.ORG">>}
AllCountryAnswers ==
    {Matches(<<>>), Matches(<<France>>), Matches(<<DRCongo>>), Matches(<<Bare>>),
     Matches(<<Antarctica>>),
     Matches(<<DRCongo, France>>), Ok([isArray |-> FALSE, items |-> <<>>]),
     Http(404)} \cup Failures
AllCurrentAnswers == {Ok(Current), Ok(Null)} \cup Failures
AllForecastAnswers ==
    {Ok([list |-> ForecastList(n)]) : n \in 0..MaxForecast}
        \cup {Ok([cod |-> "200"]), Ok(Null)} \cup Failures
AllExchangeAnswers == {Ok(Rates), Ok([date |-> <<"2024-05-01">>]), Ok(Null)} \cup Failures
AllAqAnswers ==
    {Ok([results |-> Locations(n)]) : n \in 0..MaxLocations}
        \cup {Ok([meta |-> "v3"]), Ok(Null)} \cup Failures

Keys == [OPENWEATHER_API_KEY : {"", "owm-key"}, OPENAQS_API_KEY : {"", "aq-key"}]

(***************************************************************************)
(* Specifications.                                                         *)
(***************************************************************************)
InitState ==
    /\ now = 0
    /\ cache = [k \in {} |-> Null]
    /\ reqs = [r \in Req |-> IdleReq]

\* both API keys configured, concurrent requests, the clock running
Init ==
    /\ env = [OPENWEATHER_API_KEY |-> "owm-key", OPENAQS_API_KEY |-> "aq-key"]
    /\ InitState

Next ==
    \/ \E r \in Req, raw \in Names : Arrive(r, raw)
    \/ \E r \in Req, resp \in CountryAnswers : CountryResp(r, resp)
    \/ \E r \in Req, resp \in CurrentAnswers : CurrentResp(r, resp)
    \/ \E r \in Req, resp \in ForecastAnswers : ForecastResp(r, resp)
    \/ \E r \in Req, resp \in ExchangeAnswers : ExchangeResp(r, resp)
    \/ \E r \in Req, resp \in AqAnswers : AqResp(r, resp)
    \/ Tick
    \/ CheckData

Spec == Init /\ [][Next]_vars

\* any configuration of the keys, one request, every kind of upstream answer
InitAdapters ==
    /\ env \in Keys
    /\ InitState

\* a second request, sent for a name whose record the cache holds
Repeat(r, raw) ==
    /\ Live(cache, CacheKey(CountryName(raw)))
    /\ Arrive(r, raw)

NextAdapters ==
    \/ \E raw \in AllNames : Arrive(1, raw)
    \/ \E raw \in AllNames : Repeat(2, raw)
    \/ \E resp \in AllCountryAnswers : CountryResp(1, resp)
    \/ \E resp \in AllCurrentAnswers : CurrentResp(1, resp)
    \/ \E resp \in AllForecastAnswers : ForecastResp(1, resp)
    \/ \E resp \in AllExchangeAnswers : ExchangeResp(1, resp)
    \/ \E resp \in AllAqAnswers : AqResp(1, resp)

SpecAdapters == InitAdapters /\ [][NextAdapters]_vars

LiveNames == {<<"F", "r">>, <<" ", " ">>}
LiveCountryAnswers == {Matches(<<France>>), Matches(<<>>), Timeout}

\* Concurrent requests whose upstream calls may also run into the timeout of
\* fetchJson; every call that has been sent is eventually answered or timed
\* out, and the continuation of the handler then runs.
NextLive ==
    \/ \E r \in Req, raw \in LiveNames : Arrive(r, raw)
    \/ \E r \in Req, resp \in LiveCountryAnswers : CountryResp(r, resp)
    \/ \E r \in Req, resp \in {Ok(Current), Timeout} : CurrentResp(r, resp)
    \/ \E r \in Req, resp \in ForecastAnswers \cup {Timeout} : ForecastResp(r, resp)
    \/ \E r \in Req, resp \in ExchangeAnswers \cup {Timeout} : ExchangeResp(r, resp)
    \/ \E r \in Req, resp \in AqAnswers \cup {Timeout} : AqResp(r, resp)

Fairness ==
    \A r \in Req :
        /\ WF_vars(\E resp \in LiveCountryAnswers : CountryResp(r, resp))
        /\ WF_vars(\E resp \in {Ok(Current), Timeout} : CurrentResp(r, resp))
        /\ WF_vars(\E resp \in ForecastAnswers \cup {Timeout} : ForecastResp(r, resp))
        /\ WF_vars(\E resp \in ExchangeAnswers \cup {Timeout} : ExchangeResp(r, resp))
        /\ WF_vars(\E resp \in AqAnswers \cup {Timeout} : AqResp(r, resp))

SpecLive == Init /\ [][NextLive]_vars /\ Fairness

(***************************************************************************)
(* Vocabulary of the properties.                                           *)
(***************************************************************************)
Arrived(r) == reqs[r].pc # "idle"
Done(r) == reqs[r].pc = "done"

\* r was answered 200 with a freshly aggregated record
Miss200(r) == Done(r) /\ reqs[r].status = 200 /\ ~reqs[r].body.fromCache

\* r was answered 200 from the cache
Hit200(r) == Done(r) /\ reqs[r].status = 200 /\ reqs[r].body.fromCache

\* the composite record of a 200 body
Record(body) ==
    [country |-> body.country, weather |-> body.weather, exchange |-> body.exchange,
     airQuality |-> body.airQuality, fetchedAt |-> body.fetchedAt]

\* the names of a and b are equal after trimming and lower-casing
SameName(a, b) == ToLowerCase(Trim(reqs[a].raw)) = ToLowerCase(Trim(reqs[b].raw))

\* m completed before h arrived
Before(m, h) == Done(m) /\ Arrived(h) /\ reqs[m].rank <= reqs[h].sawDone

\* the fresh 200 responses for h's name that completed before h arrived
Prior(h) == {m \in Req : Miss200(m) /\ SameName(m, h) /\ Before(m, h)}

\* h arrived before the TTL had elapsed since m completed
WithinTTL(m, h) == reqs[h].arrived < reqs[m].finished + CACHE_TTL

\* the latest of a non-empty set of completed requests
Latest(S) == CHOOSE m \in S : \A q \in S : reqs[q].rank <= reqs[m].rank

\* r sent a request from the call site
Called(r, site) == \E i \in 1..Len(reqs[r].calls) : reqs[r].calls[i].site = site

\* r received an answer at the call site, and the answer
Got(r, site) == \E i \in 1..Len(reqs[r].answers) : reqs[r].answers[i].site = site
AnswerOf(r, site) ==
    reqs[r].answers[CHOOSE i \in 1..Len(reqs[r].answers) :
                        reqs[r].answers[i].site = site].resp

(***************************************************************************)
(* C1                                                                      *)
(***************************************************************************)
\* C1, as stated: after a request for a key completed with 200 and
\* fromCache=false, every later request for the same normalized key that
\* arrives before the TTL has elapsed returns 200 with fromCache=true and the
\* country, weather, exchange, airQuality and fetchedAt of that original
\* response, and issues no upstream call.
C1_AsStated ==
    \A m, h \in Req :
        (Miss200(m) /\ SameName(m, h) /\ Before(m, h) /\ WithinTTL(m, h))
            => /\ Hit200(h)
               /\ Record(reqs[h].body) = Record(reqs[m].body)
               /\ reqs[h].calls = <<>>

\* C1, amended: after a request for a key completed with 200 and
\* fromCache=false, every later request for the same normalized key that
\* arrives before the TTL has elapsed returns 200 with fromCache=true and
\* issues no upstream call; its country, weather, exchange, airQuality and
\* fetchedAt are those of the latest fromCache=false response for the key that
\* completed before it arrived (the original one, unless an overlapping miss
\* of the same key completed after it).
C1_HitWithinTTL ==
    \A m, h \in Req :
        (Miss200(m) /\ SameName(m, h) /\ Before(m, h) /\ WithinTTL(m, h))
            => /\ Hit200(h)
               /\ Record(reqs[h].body) = Record(reqs[Latest(Prior(h))].body)
               /\ reqs[h].calls = <<>>

\* a hit at a later instant than the miss it repeats, the record error-marked
C1_Witness ==
    \E m, h \in Req :
        /\ Miss200(m) /\ SameName(m, h) /\ Before(m, h) /\ WithinTTL(m, h)
        /\ Hit200(h)
        /\ reqs[h].arrived > reqs[m].finished
        /\ "error" \in DOMAIN reqs[m].body.weather
        /\ Record(reqs[h].body) = Record(reqs[m].body)

(***************************************************************************)
(* C2                                                                      *)
(***************************************************************************)
\* C2: a request that arrives after the TTL has elapsed since the last write
\* of its key (or for a key never written) is not served from the cache: it
\* calls the country provider, and when it is answered 200 it is answered
\* fromCache=false after the exchange call.  Every entry of the cache is the
\* record of the latest fresh response for its key, expiring CACHE_TTL after
\* that response: a hit neither changes nor extends it.
C2_ExpiredIsAbsent ==
    /\ \A h \in Req :
        (/\ Arrived(h)
         /\ ~IsBlank(reqs[h].raw)
         /\ \A m \in Prior(h) : reqs[m].finished + CACHE_TTL < reqs[h].arrived)
            => /\ Called(h, "country")
               /\ reqs[h].calls[1].site = "country"
               /\ (Done(h) /\ reqs[h].status = 200)
                    => (~reqs[h].body.fromCache /\ Called(h, "exchange"))
    /\ \A k \in DOMAIN cache :
        LET writers == {m \in Req : Miss200(m) /\ CacheKey(ToLowerCase(Trim(reqs[m].raw))) = k}
        IN  /\ writers # {}
            /\ cache[k].v = Record(reqs[Latest(writers)].body)
            /\ cache[k].t = reqs[Latest(writers)].finished + CACHE_TTL

\* a key written, hit, expired and aggregated again
C2_Witness ==
    \E m, g, h \in Req :
        /\ Miss200(m) /\ Hit200(g) /\ Miss200(h)
        /\ SameName(m, h) /\ SameName(m, g)
        /\ Before(m, g) /\ Before(g, h)
        /\ reqs[g].arrived > reqs[m].finished
        /\ reqs[m].finished + CACHE_TTL < reqs[h].arrived
        /\ Record(reqs[h].body) # Record(reqs[m].body)

(***************************************************************************)
(* C3                                                                      *)
(***************************************************************************)
\* C3: two names equal after trimming and lower-casing use one cache entry:
\* when a request for one has been answered with a fresh record, a request
\* for the other arriving after it within the TTL is served fromCache=true,
\* and the cache never holds two entries whose names normalize to the same.
C3_OneEntryPerName ==
    /\ \A a, b \in Req :
        (Miss200(a) /\ SameName(a, b) /\ Before(a, b) /\ WithinTTL(a, b))
            => Hit200(b)
    /\ \A j, k \in DOMAIN cache :
        ToLowerCase(Trim(Tail(j))) = ToLowerCase(Trim(Tail(k))) => j = k

\* a name served from the entry a differently written name populated
C3_Witness ==
    \E a, b \in Req :
        /\ Miss200(a) /\ Hit200(b) /\ Before(a, b)
        /\ SameName(a, b)
        /\ reqs[a].raw # reqs[b].raw
        /\ Trim(reqs[b].raw) # reqs[b].raw
        /\ ToLowerCase(reqs[a].raw) # reqs[a].raw
        /\ Cardinality(DOMAIN cache) = 1

(***************************************************************************)
(* C5                                                                      *)
(***************************************************************************)
\* the country provider answered r with a 2xx whose result set is empty
EmptyResultSet(r) ==
    /\ Got(r, "country")
    /\ AnswerOf(r, "country").kind = "ok"
    /\ AnswerOf(r, "country").body.isArray
    /\ AnswerOf(r, "country").body.items = <<>>

\* C5: when the country provider's call succeeds with an empty result set,
\* the request ends with one response, status 404, having sent no request
\* but the one to the country provider, and the step that answers it leaves
\* the cache as it was (no entry is written).
C5_EmptyResultIs404 ==
    /\ [](\A r \in Req :
            EmptyResultSet(r)
                => /\ Done(r)
                   /\ reqs[r].status = 404
                   /\ reqs[r].responses = 1
                   /\ Len(reqs[r].calls) = 1
                   /\ reqs[r].calls[1].site = "country")
    /\ [][\A r \in Req :
            (~EmptyResultSet(r) /\ EmptyResultSet(r)') => cache' = cache]_vars

\* an empty result set answered 404 while the cache holds an entry
C5_Witness ==
    \E r \in Req :
        /\ EmptyResultSet(r)
        /\ reqs[r].status = 404
        /\ DOMAIN cache # {}

(***************************************************************************)
(* C6                                                                      *)
(***************************************************************************)
\* the call of the country provider did not resolve a country for r
CountryUnresolved(r) ==
    /\ Got(r, "country")
    /\ \/ AnswerOf(r, "country").kind # "ok"
       \/ ~AnswerOf(r, "country").body.isArray
       \/ AnswerOf(r, "country").body.items = <<>>

\* C6: for a non-empty country key, every failure of the country adapter (a
\* non-2xx answer, a timeout, an unparsable body, an empty result set) yields
\* one response with status 404, and no record is cached by the request.
C6_CountryFailureIs404 ==
    \A r \in Req :
        CountryUnresolved(r)
            => /\ Done(r)
               /\ reqs[r].status = 404
               /\ reqs[r].responses = 1

(***************************************************************************)
(* C7                                                                      *)
(***************************************************************************)
\* C7: a request whose name is empty or only whitespace is answered 400 with
\* an error body and no record of the cache, sends no upstream request, and
\* its handling leaves the cache as it was.
C7_BlankNameIs400 ==
    /\ [](\A r \in Req :
            (Arrived(r) /\ Trim(reqs[r].raw) = <<>>)
                => /\ Done(r)
                   /\ reqs[r].status = 400
                   /\ reqs[r].responses = 1
                   /\ DOMAIN reqs[r].body = {"error"}
                   /\ reqs[r].calls = <<>>)
    /\ [][\A r \in Req :
            (~Arrived(r) /\ Arrived(r)' /\ Trim(reqs'[r].raw) = <<>>)
                => cache' = cache]_vars

\* a whitespace name answered 400 while the cache holds a live entry
C7_Witness ==
    \E r \in Req :
        /\ Arrived(r)
        /\ Trim(reqs[r].raw) = <<>>
        /\ reqs[r].raw # <<>>
        /\ reqs[r].status = 400
        /\ \E k \in DOMAIN cache : cache[k].t > reqs[r].arrived

(***************************************************************************)
(* C4                                                                      *)
(***************************************************************************)
\* the answer r got at the call site is a non-2xx, a timeout or an unparsable body
Failed(r, site) == Got(r, site) /\ AnswerOf(r, site).kind # "ok"
Succeeded(r, site) == Got(r, site) /\ AnswerOf(r, site).kind = "ok"

\* a sub-record that carries a non-empty error string
ErrorMarked(sub) == "error" \in DOMAIN sub /\ sub.error # ""

\* the country provider resolved a country for r
Resolved(r) == Got(r, "country") /\ ~CountryUnresolved(r)

\* C4: for a resolved country and any combination of failures of the weather,
\* exchange and air-quality calls, the request ends with status 200; the
\* sub-record of each adapter with a failed call carries a non-empty error
\* string, and the country sub-record and the sub-record of each adapter whose
\* calls succeeded are what the country provider's first match and that
\* adapter's own answers determine, whatever the other adapters' answers were.
C4_FailureIsolation ==
    \A r \in Req :
        (Resolved(r) /\ (Done(r) \/ Failed(r, "current") \/ Failed(r, "forecast")
                            \/ Failed(r, "exchange") \/ Failed(r, "aq")))
            => LET match == AnswerOf(r, "country").body.items[1]
                   country == [name |-> IF match.common # <<>> THEN match.common
                                        ELSE IF match.official # <<>> THEN match.official
                                        ELSE ToLowerCase(Trim(reqs[r].raw)),
                               officialName |-> match.official,
                               latlng |-> match.latlng,
                               currencies |-> match.currencies]
               IN  /\ reqs[r].country = country
                   /\ reqs[r].status \in {0, 200}
                   /\ (Failed(r, "current") \/ Failed(r, "forecast"))
                        => ErrorMarked(reqs[r].weather)
                   /\ (Succeeded(r, "current") /\ Succeeded(r, "forecast"))
                        => reqs[r].weather =
                              BuildWeather(AnswerOf(r, "current").body,
                                           AnswerOf(r, "forecast").body)
                   /\ Failed(r, "exchange") => ErrorMarked(reqs[r].exchange)
                   /\ Succeeded(r, "exchange")
                        => reqs[r].exchange =
                              BuildExchange(ExchangeBase(country),
                                            AnswerOf(r, "exchange").body)
                   /\ Done(r)
                        => /\ reqs[r].status = 200
                           /\ reqs[r].responses = 1
                           /\ reqs[r].body.country = country
                           /\ reqs[r].body.weather = reqs[r].weather
                           /\ reqs[r].body.exchange = reqs[r].exchange
                           /\ Failed(r, "aq") => ErrorMarked(reqs[r].body.airQuality)
                           /\ Succeeded(r, "aq")
                                => reqs[r].body.airQuality =
                                      BuildAirQuality(AnswerOf(r, "aq").body)

\* weather and air quality failed in different ways, the exchange data is served
C4_Witness ==
    \E r \in Req :
        /\ Done(r) /\ Resolved(r)
        /\ Failed(r, "forecast") /\ Failed(r, "aq") /\ Succeeded(r, "exchange")
        /\ AnswerOf(r, "forecast").kind # AnswerOf(r, "aq").kind
        /\ reqs[r].status = 200
        /\ ErrorMarked(reqs[r].body.weather)
        /\ ErrorMarked(reqs[r].body.airQuality)
        /\ reqs[r].body.exchange.rates # Null

(***************************************************************************)
(* C8                                                                      *)
(***************************************************************************)
\* both weather calls of r were answered with a JSON object, the forecast with a list
WeatherSucceeded(r) ==
    /\ Succeeded(r, "current") /\ AnswerOf(r, "current").body # Null
    /\ Succeeded(r, "forecast") /\ AnswerOf(r, "forecast").body # Null
    /\ "list" \in DOMAIN AnswerOf(r, "forecast").body

Min(a, b) == IF a < b THEN a ELSE b

\* list holds the dt, temp, description and windSpeed of the first
\* min(n, 8) entries of the provider's list, in the provider's order
FirstEight(list, provided) ==
    /\ Len(list) = Min(Len(provided), 8)
    /\ \A i \in 1..Len(list) :
        list[i] = [dt |-> provided[i].dt, temp |-> provided[i].temp,
                   description |-> provided[i].description,
                   windSpeed |-> provided[i].windSpeed]

\* C8: whenever both weather calls succeed and the forecast provider returns
\* n entries, the forecast list of the weather sub-record, in the response and
\* in the cache, has length min(n, 8) and holds the first min(n, 8) entries of
\* the provider in the provider's order.
C8_ForecastFirstEight ==
    \A r \in Req :
        (Done(r) /\ WeatherSucceeded(r))
            => /\ reqs[r].status = 200
               /\ "forecast" \in DOMAIN reqs[r].body.weather
               /\ FirstEight(reqs[r].body.weather.forecast.list,
                             AnswerOf(r, "forecast").body.list)
               /\ FirstEight(cache[CacheKey(reqs[r].countryName)].v.weather.forecast.list,
                             AnswerOf(r, "forecast").body.list)

\* the provider returned more than eight entries and eight are served
C8_Witness ==
    \E r \in Req :
        /\ Done(r) /\ WeatherSucceeded(r)
        /\ Len(AnswerOf(r, "forecast").body.list) > 8
        /\ Len(reqs[r].body.weather.forecast.list) = 8

(***************************************************************************)
(* C9                                                                      *)
(***************************************************************************)
\* C9: in every composite record returned or cached, the location list of the
\* air-quality sub-record has at most 5 entries, whatever the number of
\* locations in the provider's answer.
C9_AtMostFiveLocations ==
    /\ \A r \in Req :
        (Done(r) /\ reqs[r].status = 200 /\ "results" \in DOMAIN reqs[r].body.airQuality)
            => Len(reqs[r].body.airQuality.results) <= AqLimit
    /\ \A k \in DOMAIN cache :
        "results" \in DOMAIN cache[k].v.airQuality
            => Len(cache[k].v.airQuality.results) <= AqLimit

(***************************************************************************)
(* C10                                                                     *)
(***************************************************************************)
\* C10: a request sent upstream carries the air-quality API key if and only
\* if its target is the air-quality provider and a key is configured; no
\* request to the country, weather or exchange provider carries it, whatever
\* the country name.
C10_KeyOnlyToAirQuality ==
    \A r \in Req : \A i \in 1..Len(reqs[r].calls) :
        LET call == reqs[r].calls[i]
        IN  (call.xApiKey # "")
                <=> (Host(call.url) = "api.openaq.org" /\ env.OPENAQS_API_KEY # "")

(***************************************************************************)
(* C11                                                                     *)
(***************************************************************************)
\* a sub-record of the 200 body carries an error
HasErrorMark(body) ==
    \/ "error" \in DOMAIN body.weather
    \/ "error" \in DOMAIN body.exchange
    \/ "error" \in DOMAIN body.airQuality

\* C11, as stated: a composite record with an error-marked sub-record is
\* cached like a successful one with the same TTL, and until that TTL elapses
\* every later request for the key returns the same error-marked sub-records
\* from the cache without calling a provider.
C11_AsStated ==
    \A m, h \in Req :
        (Miss200(m) /\ HasErrorMark(reqs[m].body)
            /\ SameName(m, h) /\ Before(m, h) /\ WithinTTL(m, h))
            => /\ Hit200(h)
               /\ reqs[h].body.weather = reqs[m].body.weather
               /\ reqs[h].body.exchange = reqs[m].body.exchange
               /\ reqs[h].body.airQuality = reqs[m].body.airQuality
               /\ reqs[h].calls = <<>>

\* C11, amended: a composite record with an error-marked sub-record is cached
\* like a successful one, with the expiry CACHE_TTL after its write; until
\* then every request for the key arriving after the write is served from the
\* cache without calling a provider, and it returns the same error-marked
\* sub-records unless an overlapping miss of the same key has completed after
\* the write and overwritten the entry.
C11_ErrorRecordCached ==
    /\ \A m, h \in Req :
        (Miss200(m) /\ HasErrorMark(reqs[m].body)
            /\ SameName(m, h) /\ Before(m, h) /\ WithinTTL(m, h))
            => /\ Hit200(h)
               /\ reqs[h].calls = <<>>
               /\ Latest(Prior(h)) = m => Record(reqs[h].body) = Record(reqs[m].body)
    /\ \A m \in Req :
        (/\ Miss200(m) /\ HasErrorMark(reqs[m].body)
         /\ \A q \in Req : (Miss200(q) /\ SameName(m, q)) => reqs[q].rank <= reqs[m].rank
         /\ reqs[m].finished + CACHE_TTL >= now)
            => LET k == CacheKey(ToLowerCase(Trim(reqs[m].raw)))
               IN  /\ k \in DOMAIN cache
                   /\ cache[k] = [v |-> Record(reqs[m].body),
                                  t |-> reqs[m].finished + CACHE_TTL]

\* a weather error served again from the cache at a later instant
C11_Witness ==
    \E m, h \in Req :
        /\ Miss200(m) /\ "error" \in DOMAIN reqs[m].body.weather
        /\ Hit200(h) /\ SameName(m, h) /\ Before(m, h)
        /\ reqs[h].arrived > reqs[m].finished
        /\ reqs[h].body.weather = reqs[m].body.weather
        /\ reqs[h].calls = <<>>

(***************************************************************************)
(* C12                                                                     *)
(***************************************************************************)
\* sub is either an error with a non-empty message and nothing else, or the
\* data fields without an error
OneOfTwoStates(sub, dataFields) ==
    \/ DOMAIN sub = {"error"} /\ sub.error # ""
    \/ DOMAIN sub = dataFields

\* C12: every 200 response, from a miss or from the cache, whatever providers
\* failed, has exactly the fields fromCache, country, weather, exchange,
\* airQuality and fetchedAt, and each of weather, exchange and airQuality is
\* not null and is either its data fields without an error field or an error
\* field with a non-empty message and no data field.
C12_ResponseShape ==
    \A r \in Req :
        (Done(r) /\ reqs[r].status = 200)
            => /\ DOMAIN reqs[r].body =
                    {"fromCache", "country", "weather", "exchange", "airQuality", "fetchedAt"}
               /\ reqs[r].body.fromCache \in BOOLEAN
               /\ reqs[r].body.weather # Null
               /\ reqs[r].body.exchange # Null
               /\ reqs[r].body.airQuality # Null
               /\ OneOfTwoStates(reqs[r].body.weather, {"current", "forecast"})
               /\ OneOfTwoStates(reqs[r].body.exchange, {"base", "rates", "date"})
               /\ OneOfTwoStates(reqs[r].body.airQuality, {"results"})

\* a record with a failed weather and air quality and a populated exchange,
\* served once from a miss and once from the cache
C12_Witness ==
    \E m, h \in Req :
        /\ Miss200(m) /\ Hit200(h) /\ Before(m, h)
        /\ Record(reqs[h].body) = Record(reqs[m].body)
        /\ ErrorMarked(reqs[h].body.weather)
        /\ ErrorMarked(reqs[h].body.airQuality)
        /\ DOMAIN reqs[h].body.exchange = {"base", "rates", "date"}

(***************************************************************************)
(* C13                                                                     *)
(***************************************************************************)
\* the exchange provider answered r with a 2xx whose body has no rates field
NoRatesField(r) ==
    /\ Resolved(r)
    /\ Succeeded(r, "exchange")
    /\ \/ AnswerOf(r, "exchange").body = Null
       \/ "rates" \notin DOMAIN AnswerOf(r, "exchange").body

\* C13, as stated: when the exchange provider's call succeeds but its
\* response has no rates field, the exchange sub-record of the composite
\* record carries an error field; the request still ends 200.
C13_AsStated ==
    \A r \in Req :
        (NoRatesField(r) /\ Done(r))
            => /\ reqs[r].status = 200
               /\ "error" \in DOMAIN reqs[r].body.exchange

\* C13, amended: when the exchange provider's call succeeds but its response
\* has no rates field, the exchange sub-record is a populated record without
\* an error field: the base currency, rates null and the date of the response
\* (null for a null body).  The request still ends 200, and the weather and
\* air-quality sub-records are what their own answers determine.
C13_NoRatesIsNullRates ==
    \A r \in Req :
        NoRatesField(r)
            => LET exJson == AnswerOf(r, "exchange").body
               IN  /\ reqs[r].exchange =
                        [base |-> ExchangeBase(reqs[r].country),
                         rates |-> Null,
                         date |-> IF exJson = Null THEN <<>> ELSE exJson.date]
                   /\ reqs[r].status \in {0, 200}
                   /\ Done(r)
                        => /\ reqs[r].status = 200
                           /\ reqs[r].body.exchange = reqs[r].exchange
                           /\ "error" \notin DOMAIN reqs[r].body.exchange
                           /\ (Succeeded(r, "current") /\ Succeeded(r, "forecast"))
                                => reqs[r].body.weather =
                                      BuildWeather(AnswerOf(r, "current").body,
                                                   AnswerOf(r, "forecast").body)
                           /\ (Failed(r, "current") \/ Failed(r, "forecast"))
                                => ErrorMarked(reqs[r].body.weather)
                           /\ Succeeded(r, "aq")
                                => reqs[r].body.airQuality =
                                      BuildAirQuality(AnswerOf(r, "aq").body)
                           /\ Failed(r, "aq") => ErrorMarked(reqs[r].body.airQuality)

\* a 2xx exchange answer with a date and no rates, the other adapters served
C13_Witness ==
    \E r \in Req :
        /\ Done(r) /\ NoRatesField(r)
        /\ AnswerOf(r, "exchange").body # Null
        /\ reqs[r].status = 200
        /\ reqs[r].body.exchange.rates = Null
        /\ reqs[r].body.exchange.date # <<>>
        /\ "current" \in DOMAIN reqs[r].body.weather
        /\ "results" \in DOMAIN reqs[r].body.airQuality

(***************************************************************************)
(* C14                                                                     *)
(***************************************************************************)
\* a and b are requests for one normalized name that both missed the cache
\* and overlapped: each arrived before the other was answered
Overlap(a, b) ==
    /\ a # b
    /\ SameName(a, b)
    /\ Called(a, "country") /\ Called(b, "country")
    /\ ~Before(a, b) /\ ~Before(b, a)

\* the body of r is built from the answers r itself received
BuiltFromOwnAnswers(r) ==
    /\ Len(reqs[r].answers) = Len(reqs[r].calls)
    /\ reqs[r].calls[1] = Sent("country", RestUrl(ToLowerCase(Trim(reqs[r].raw))))
    /\ Called(r, "exchange")
    /\ reqs[r].body.country =
          BuildCountry(AnswerOf(r, "country").body.items[1], ToLowerCase(Trim(reqs[r].raw)))
    /\ (Called(r, "current") /\ Failed(r, "current"))
          => reqs[r].body.weather = [error |-> FetchJson(AnswerOf(r, "current")).err]
    /\ (Succeeded(r, "current") /\ Succeeded(r, "forecast"))
          => reqs[r].body.weather =
                BuildWeather(AnswerOf(r, "current").body, AnswerOf(r, "forecast").body)
    /\ Succeeded(r, "exchange")
          => reqs[r].body.exchange =
                BuildExchange(ExchangeBase(reqs[r].body.country),
                              AnswerOf(r, "exchange").body)
    /\ Succeeded(r, "aq")
          => reqs[r].body.airQuality = BuildAirQuality(AnswerOf(r, "aq").body)
    /\ reqs[r].body.fetchedAt = reqs[r].finished

\* C14: requests for one normalized key that overlap and each miss the cache
\* are not coalesced: each sends its own upstream requests and, when answered
\* 200, is answered fromCache=false with the record built from its own
\* answers only; a miss writes its own record when it completes, so once all
\* have finished the entry of the key is the record of the one that wrote
\* last.
C14_NoSingleFlight ==
    /\ [](\A a, b \in Req :
            Overlap(a, b)
                => /\ (Done(a) /\ reqs[a].status = 200)
                        => /\ ~reqs[a].body.fromCache
                           /\ BuiltFromOwnAnswers(a)
                   /\ (/\ Miss200(a) /\ Miss200(b)
                       /\ reqs[a].rank < reqs[b].rank
                       /\ \A q \in Req :
                            (Miss200(q) /\ SameName(q, b)) => reqs[q].rank <= reqs[b].rank
                       /\ now <= reqs[b].finished + CACHE_TTL)
                        => LET k == CacheKey(ToLowerCase(Trim(reqs[b].raw)))
                           IN  /\ k \in DOMAIN cache
                               /\ cache[k].v = Record(reqs[b].body))
    /\ [][\A r \in Req :
            (~Done(r) /\ Miss200(r)')
                => LET k == CacheKey(reqs'[r].countryName)
                   IN  /\ k \in DOMAIN cache'
                       /\ cache'[k] = [v |-> Record(reqs'[r].body),
                                       t |-> now + CACHE_TTL]]_vars

\* two overlapping misses of one name written differently, one with a failed
\* weather and one with weather data; the cache holds the later one's record
C14_Witness ==
    \E a, b \in Req :
        /\ Overlap(a, b)
        /\ Miss200(a) /\ Miss200(b)
        /\ reqs[a].raw # reqs[b].raw
        /\ reqs[a].rank < reqs[b].rank
        /\ "error" \in DOMAIN reqs[a].body.weather
        /\ "current" \in DOMAIN reqs[b].body.weather
        /\ CacheKey(reqs[b].countryName) \in DOMAIN cache
        /\ cache[CacheKey(reqs[b].countryName)].v = Record(reqs[b].body)
        /\ cache[CacheKey(reqs[b].countryName)].v # Record(reqs[a].body)

(***************************************************************************)
(* C15                                                                     *)
(***************************************************************************)
Secondary == {"current", "forecast", "exchange", "aq"}

\* C15: within one request, a request to the weather, exchange or air-quality
\* provider is sent only after the request's call of the country provider,
\* its first, has been answered successfully with a non-empty result; when
\* the country is not resolved the country call stays the only one.
C15_CountryFirst ==
    \A r \in Req :
        /\ \A i \in 1..Len(reqs[r].calls) :
              reqs[r].calls[i].site \in Secondary
                  => /\ i > 1
                     /\ reqs[r].calls[1].site = "country"
                     /\ reqs[r].answers # <<>>
                     /\ reqs[r].answers[1].site = "country"
                     /\ reqs[r].answers[1].resp.kind = "ok"
                     /\ reqs[r].answers[1].resp.body.isArray
                     /\ reqs[r].answers[1].resp.body.items # <<>>
        /\ \A i \in 2..Len(reqs[r].calls) : reqs[r].calls[i].site \in Secondary
        /\ CountryUnresolved(r)
              => /\ Len(reqs[r].calls) = 1
                 /\ Done(r)
                 /\ reqs[r].status \in {404, 500}

\* a resolved country followed by all four secondary calls, in the code's order
C15_Witness ==
    \E r \in Req :
        /\ Done(r) /\ Resolved(r)
        /\ Len(reqs[r].calls) = 5
        /\ reqs[r].calls[2].site = "current"
        /\ reqs[r].calls[3].site = "forecast"
        /\ reqs[r].calls[4].site = "exchange"
        /\ reqs[r].calls[5].site = "aq"

(***************************************************************************)
(* C16                                                                     *)
(***************************************************************************)
\* the step delivers a timeout to the call r is waiting for
TimedOut(r) ==
    /\ Len(reqs'[r].answers) = Len(reqs[r].answers) + 1
    /\ reqs'[r].answers[Len(reqs'[r].answers)].resp = Timeout

\* C16: provided every upstream call is eventually answered or cut off by its
\* timeout, every request that arrives is eventually answered, with exactly
\* one response whose status is 200, 400, 404 or 500, and is not answered
\* again; a timeout ends only the call it belongs to: the other requests are
\* untouched and, when the call is a weather, exchange or air-quality call,
\* its own request goes on to its next call or its 200 response.
C16_ExactlyOneResponse ==
    /\ \A r \in Req : Arrived(r) ~> Done(r)
    /\ [](\A r \in Req :
            /\ reqs[r].responses <= 1
            /\ Done(r) <=> reqs[r].responses = 1
            /\ Done(r) => reqs[r].status \in {200, 400, 404, 500})
    /\ [][\A r \in Req : Done(r) => reqs'[r] = reqs[r]]_vars
    /\ [][\A r \in Req :
            TimedOut(r)
                => /\ \A q \in Req \ {r} : reqs'[q] = reqs[q]
                   /\ reqs[r].pc \in Secondary
                        => /\ reqs'[r].calls # reqs[r].calls \/ Done(r)'
                           /\ reqs'[r].status \in {0, 200}
                   /\ reqs[r].pc = "country"
                        => (Done(r)' /\ reqs'[r].status = 500)]_vars

\* two requests in flight together: the weather call of one timed out and it
\* was answered 200 with the other adapters' data, the other was answered 200
\* with weather data
C16_Witness ==
    \E r, q \in Req :
        /\ Overlap(r, q)
        /\ Miss200(r) /\ Miss200(q)
        /\ Got(r, "current") /\ AnswerOf(r, "current") = Timeout
        /\ ErrorMarked(reqs[r].body.weather)
        /\ "rates" \in DOMAIN reqs[r].body.exchange
        /\ "results" \in DOMAIN reqs[r].body.airQuality
        /\ "current" \in DOMAIN reqs[q].body.weather
        /\ reqs[r].responses = 1 /\ reqs[q].responses = 1

(***************************************************************************)
(* C17                                                                     *)
(***************************************************************************)
\* the latitude or the longitude of r's resolved country is missing or zero
NoUsableCoordinates(r) ==
    LET latlng == AnswerOf(r, "country").body.items[1].latlng
    IN  \/ Len(latlng) < 2
        \/ latlng[1] = 0
        \/ latlng[2] = 0

\* C17: when the latitude or the longitude of the resolved country is missing
\* or exactly zero, no request is sent to the air-quality provider and the
\* air-quality sub-record is an error; the provider is called only when both
\* coordinates are present and not zero, and then always; in both cases the
\* request ends with 200.
C17_AirQualityNeedsCoordinates ==
    \A r \in Req :
        (Resolved(r) /\ Got(r, "exchange"))
            => /\ NoUsableCoordinates(r)
                    => /\ ~Called(r, "aq")
                       /\ Done(r)
                       /\ reqs[r].status = 200
                       /\ DOMAIN reqs[r].body.airQuality = {"error"}
                       /\ reqs[r].body.airQuality.error # ""
               /\ ~NoUsableCoordinates(r)
                    => /\ Called(r, "aq")
                       /\ reqs[r].calls[Len(reqs[r].calls)] =
                             Sent("aq", AqUrl(reqs[r].country.latlng[1],
                                              reqs[r].country.latlng[2]))
               /\ Done(r) => (reqs[r].status = 200 /\ reqs[r].responses = 1)

\* a country with longitude zero answered 200 with an air-quality error and
\* no air-quality call, after its weather and exchange calls
C17_Witness ==
    \E r \in Req :
        /\ Done(r) /\ Resolved(r)
        /\ Len(reqs[r].country.latlng) = 2
        /\ reqs[r].country.latlng[1] # 0
        /\ reqs[r].country.latlng[2] = 0
        /\ ~Called(r, "aq")
        /\ Called(r, "current")
        /\ reqs[r].status = 200
        /\ ErrorMarked(reqs[r].body.airQuality)
        /\ "rates" \in DOMAIN reqs[r].body.exchange

(***************************************************************************)
(* C18                                                                     *)
(***************************************************************************)
\* r's resolved country has a coordinate pair and the weather key is set
WeatherPossible(r) ==
    /\ Len(AnswerOf(r, "country").body.items[1].latlng) >= 2
    /\ env.OPENWEATHER_API_KEY # ""

\* the requests r sent to the weather provider, in order
WeatherCalls(r) ==
    SelectSeq(reqs[r].calls, LAMBDA c : c.site \in {"current", "forecast"})

\* C18, as stated: without a coordinate pair or without a weather key the
\* weather adapter sends no request and yields an error sub-record; otherwise
\* it sends the current-conditions request and then the forecast request,
\* and a failure of either yields an error sub-record without current or
\* forecast data.
C18_AsStated ==
    \A r \in Req :
        (Resolved(r) /\ Called(r, "exchange"))
            => /\ ~WeatherPossible(r)
                    => /\ WeatherCalls(r) = <<>>
                       /\ DOMAIN reqs[r].weather = {"error"}
               /\ WeatherPossible(r)
                    => /\ Len(WeatherCalls(r)) = 2
                       /\ WeatherCalls(r)[1].site = "current"
                       /\ WeatherCalls(r)[2].site = "forecast"
                       /\ (Failed(r, "current") \/ Failed(r, "forecast"))
                            => DOMAIN reqs[r].weather = {"error"}

\* C18, amended: without a coordinate pair or without a weather key the
\* weather adapter sends no request and yields an error sub-record; otherwise
\* it sends the current-conditions request and, only when that one has
\* succeeded, then the forecast request; a failure of either yields an error
\* sub-record without current or forecast data, and the request goes on.
C18_WeatherCalls ==
    \A r \in Req :
        (Resolved(r) /\ Called(r, "exchange"))
            => /\ ~WeatherPossible(r)
                    => /\ WeatherCalls(r) = <<>>
                       /\ DOMAIN reqs[r].weather = {"error"}
                       /\ reqs[r].weather.error # ""
               /\ WeatherPossible(r)
                    => LET latlng == AnswerOf(r, "country").body.items[1].latlng
                       IN  /\ reqs[r].calls[2] =
                                 Sent("current", CurrentUrl(latlng[1], latlng[2]))
                           /\ FetchJson(AnswerOf(r, "current")).ok
                                => /\ Len(WeatherCalls(r)) = 2
                                   /\ reqs[r].calls[3] =
                                         Sent("forecast", ForecastUrl(latlng[1], latlng[2]))
                           /\ ~FetchJson(AnswerOf(r, "current")).ok
                                => Len(WeatherCalls(r)) = 1
                           /\ (Failed(r, "current") \/ Failed(r, "forecast"))
                                => /\ DOMAIN reqs[r].weather = {"error"}
                                   /\ reqs[r].weather.error # ""
               /\ Done(r) => (reqs[r].status = 200 /\ reqs[r].body.weather = reqs[r].weather)

\* a forecast call that failed after a successful current call, answered 200
\* with a weather sub-record that holds the error only
C18_Witness ==
    \E r \in Req :
        /\ Done(r) /\ Resolved(r) /\ WeatherPossible(r)
        /\ Succeeded(r, "current") /\ Failed(r, "forecast")
        /\ Len(WeatherCalls(r)) = 2
        /\ DOMAIN reqs[r].body.weather = {"error"}
        /\ reqs[r].status = 200

(***************************************************************************)
(* C19                                                                     *)
(***************************************************************************)
\* the key the request r looks up and writes
KeyOf(r) == CacheKey(ToLowerCase(Trim(reqs[r].raw)))

\* r is answered in this step, with a fresh 200
Writes(r) == ~Done(r) /\ Miss200(r)'

\* C19: every entry of the cache is a complete composite record (country,
\* weather, exchange, airQuality, fetchedAt, and no fromCache flag) that a
\* request answered 200 with fromCache=false wrote; a step that answers a
\* request 400, 404, 500 or from the cache leaves the store as it was; and an
\* entry changes only by the write of a request answered 200 with
\* fromCache=false in that step, or by its removal once it has expired.
C19_CacheHoldsFreshRecords ==
    /\ [](\A k \in DOMAIN cache :
            /\ DOMAIN cache[k].v =
                  {"country", "weather", "exchange", "airQuality", "fetchedAt"}
            /\ \E m \in Req :
                  /\ Miss200(m) /\ KeyOf(m) = k
                  /\ cache[k].v = Record(reqs[m].body)
                  /\ cache[k].t = reqs[m].finished + CACHE_TTL)
    /\ [][\A r \in Req :
            (~Done(r) /\ Done(r)' /\ ~Miss200(r)') => cache' = cache]_vars
    /\ [][\A k \in DOMAIN cache \cup DOMAIN cache' :
            \/ k \in DOMAIN cache /\ k \in DOMAIN cache' /\ cache'[k] = cache[k]
            \/ /\ k \in DOMAIN cache'
               /\ \E r \in Req :
                     /\ Writes(r) /\ KeyOf(r)' = k
                     /\ cache'[k].v = Record(reqs'[r].body)
            \/ k \in DOMAIN cache /\ k \notin DOMAIN cache' /\ cache[k].t < now]_vars

\* an entry that was read by a hit and is still what its writer stored, while
\* requests answered 400 and 404 have come and gone
C19_Witness ==
    \E m, h, e \in Req :
        /\ Miss200(m) /\ Hit200(h) /\ SameName(m, h) /\ Before(m, h)
        /\ Done(e) /\ reqs[e].status \in {400, 404, 500}
        /\ KeyOf(m) \in DOMAIN cache
        /\ cache[KeyOf(m)].v = Record(reqs[m].body)
        /\ cache[KeyOf(m)].t = reqs[m].finished + CACHE_TTL
        /\ reqs[h].finished > reqs[m].finished

====
